---------------------------- MODULE Spec2Model ----------------------------
(***************************************************************************)
(* Verification model of the Matching & Allocation Engine:                 *)
(*   agents/matcher_agent.py     (compatibility model, greedy constructor) *)
(*   agents/matcher_agent_ga.py  (evolutionary search, genome decoder)     *)
(*   agents/coordinator_agent.py (task allocation)                         *)
(*                                                                         *)
(* Numbers.  Python floats are modelled by exact rationals <<num, den>>    *)
(* (den > 0); a score rounded to 3 decimals is the integer number of       *)
(* thousandths.  gwa is held in tenths, gene values in hundredths.         *)
(***************************************************************************)
EXTENDS Integers, Sequences, FiniteSets, TLC

VARIABLES
    \* --- compatibility model, one scored pair
    student1, student2, scores, cpc,
    \* --- MatcherAgent (greedy constructor)
    students, target_group_size, compat_matrix, ungrouped, groups, group,
    group_num, pc, picks, replay, first_run, run,
    \* --- MatcherAgentGA (evolutionary search)
    population_size, generations, ga_matrix, population, offspring, gen, slot,
    gpc, ga_groups, best_individual, initial_best, evaluations,
    \* --- MatcherAgentGA.decode_individual applied to one genome
    genome, decoded, dpc,
    \* --- CoordinatorAgent (task allocation)
    members, tasks, task_assignments, tasks_sorted, apos, allocations, apc, calls,
    \* --- a formation request: app.form_groups, the agent's run, the tables
    db_groups, db_group_members, algorithm, success, rpc, requests,
    \* --- CoordinatorAgent.calculate_skill_match applied to one member and task
    sm_member, sm_task, skill_match, spc

compatVars == <<student1, student2, scores, cpc>>
greedyVars == <<students, target_group_size, compat_matrix, ungrouped, groups,
                group, group_num, pc, picks, replay, first_run, run>>
gaVars == <<population_size, generations, ga_matrix, population, offspring, gen,
            slot, gpc, ga_groups, best_individual, initial_best, evaluations>>
coVars == <<members, tasks, task_assignments, tasks_sorted, apos, allocations,
            apc, calls>>
decodeVars == <<genome, decoded, dpc>>
dbVars == <<db_groups, db_group_members, algorithm, success, rpc, requests>>
matchVars == <<sm_member, sm_task, skill_match, spc>>
vars == <<compatVars, greedyVars, gaVars, decodeVars, coVars, dbVars, matchVars>>

---------------------------------------------------------------------------
(* Bounds of the model *)

\* genes one call of the mutation operator flips, at most
MaxFlips == 1
\* fresh genomes are drawn with periods 0..MaxPeriod
MaxPeriod == 4
\* largest population the greedy constructor is run on
MaxPop == 5
\* largest target_group_size requested
MaxTarget == 6
\* population_size and generations of the evolutionary search
PopSize == 2
Generations == 1
\* most tasks of a group, most members of a group, most calls of allocate_tasks
MaxTasks == 3
MaxMembers == 2
\* longest genome the decoder is run on
MaxGenes == 7
\* formation requests in a row, and the largest students table they run on
MaxRequests == 2
MaxRunPop == 4
\* most members (and tasks) of a group whose tasks each match one member
MaxMatched == 3
MaxCalls == 2

---------------------------------------------------------------------------
(* Arithmetic helpers *)

Abs(x) == IF x < 0 THEN -x ELSE x

Min2(x, y) == IF x <= y THEN x ELSE y

Max2(x, y) == IF x >= y THEN x ELSE y

RECURSIVE Gcd(_, _)
Gcd(a, b) == IF b = 0 THEN a ELSE Gcd(b, a % b)

\* exact rationals <<n, d>>, d > 0, kept in lowest terms
Norm(p) ==
    LET g == Gcd(Abs(p[1]), p[2])
    IN  <<p[1] \div g, p[2] \div g>>

Lcm(a, b) == (a \div Gcd(a, b)) * b

RAdd(p, q) ==
    LET d == Lcm(p[2], q[2])
    IN  Norm(<<p[1] * (d \div p[2]) + q[1] * (d \div q[2]), d>>)

RMul(p, q) == Norm(<<p[1] * q[1], p[2] * q[2]>>)

RLess(p, q) ==
    LET d == Lcm(p[2], q[2])
    IN  p[1] * (d \div p[2]) < q[1] * (d \div q[2])

RLeq(p, q) ==
    LET d == Lcm(p[2], q[2])
    IN  p[1] * (d \div p[2]) <= q[1] * (d \div q[2])

InUnit(p) == RLeq(<<0, 1>>, p) /\ RLeq(p, <<1, 1>>)

\* round(x, 3) for x = n/d >= 0, as a number of thousandths (ties to even)
Round3(p) ==
    LET n2 == 2000 * p[1]
        d2 == 2 * p[2]
        fl == n2 \div d2
        rm == n2 % d2
    IN  IF 2 * rm < d2 THEN fl
        ELSE IF 2 * rm > d2 THEN fl + 1
        ELSE IF fl % 2 = 0 THEN fl ELSE fl + 1

RECURSIVE SumSeq(_)
SumSeq(s) == IF s = <<>> THEN 0 ELSE Head(s) + SumSeq(Tail(s))

SeqToSet(s) == {s[i] : i \in 1..Len(s)}

\* list.remove(x): drops the first occurrence of x
RemoveFirst(s, x) ==
    LET i == CHOOSE k \in 1..Len(s) : s[k] = x /\ \A m \in 1..(k - 1) : s[m] # x
    IN  SubSeq(s, 1, i - 1) \o SubSeq(s, i + 1, Len(s))

---------------------------------------------------------------------------
(* Individuals *)

\* student['gwa'] is None
NoGwa == -1

\* student['traits'] == {} ; a fetched row always carries the three columns
NoTraits == [present |-> FALSE, conscientiousness |-> 0, agreeableness |-> 0,
             extraversion |-> 0]

Traits(c, a, e) == [present |-> TRUE, conscientiousness |-> c,
                    agreeableness |-> a, extraversion |-> e]

\* the key f"{day_of_week}_{time_slot}" of an availability row
SlotKey(a) == <<a.day_of_week, "_", a.time_slot>>

AvailRow(k) == [day_of_week |-> "Mon", time_slot |-> k]

SkillRow(k) == [skill_name |-> k]

Student(sk, g, av, tr) ==
    [skills |-> sk, gwa |-> g, availability |-> av, traits |-> tr]

SkillRows == {SkillRow("Python"), SkillRow("SQL")}

AvailRows == {AvailRow("AM"), AvailRow("PM")}

\* gwa in tenths (1.0 best .. 5.0 worst); 0 and None are what the database
\* may also hold
GwaValues == {NoGwa, 0, 10, 50}

\* trait vectors at the ends of the 1..5 scale, and no trait record
TraitValues == {NoTraits, Traits(5, 5, 5), Traits(5, 5, 1), Traits(1, 1, 1)}

CompatStudents ==
    {Student(sk, g, av, tr) : sk \in SUBSET SkillRows, g \in GwaValues,
                              av \in SUBSET AvailRows, tr \in TraitValues}

---------------------------------------------------------------------------
(* Compatibility model: MatcherAgent *)

\* a diversity score that falls twice as fast and is not held at 0
CalculateSkillDiversityWide(s1, s2) ==
    LET skills1 == {s.skill_name : s \in s1.skills}
        skills2 == {s.skill_name : s \in s2.skills}
        total   == Cardinality(skills1 \cup skills2)
        common  == Cardinality(skills1 \cap skills2)
    IN  IF skills1 = {} \/ skills2 = {} THEN <<1, 2>>
        ELSE Norm(<<total - 2 * Abs(2 * common - total), total>>)

\* calculate_skill_diversity: 1 - abs(overlap_ratio - 0.5) * 2, held at 0
CalculateSkillDiversity(s1, s2) ==
    LET skills1 == {s.skill_name : s \in s1.skills}
        skills2 == {s.skill_name : s \in s2.skills}
        total   == Cardinality(skills1 \cup skills2)
        common  == Cardinality(skills1 \cap skills2)
        \* 1 - abs(common/total - 0.5) * 2
        div     == Norm(<<total - Abs(2 * common - total), total>>)
    IN  IF skills1 = {} \/ skills2 = {} THEN <<1, 2>>
        ELSE IF RLess(div, <<0, 1>>) THEN <<0, 1>> ELSE div

CalculateGwaBalance(s1, s2) ==
    LET gwa1 == s1.gwa
        gwa2 == s2.gwa
        \* abs((5.0 - gwa1)/4.0 - (5.0 - gwa2)/4.0), gwa in tenths
        gwa_diff == <<Abs((50 - gwa1) - (50 - gwa2)), 40>>
    IN  IF gwa1 = NoGwa \/ gwa2 = NoGwa THEN <<1, 2>>
        ELSE IF RLeq(<<2, 10>>, gwa_diff) /\ RLeq(gwa_diff, <<5, 10>>) THEN <<1, 1>>
        ELSE IF RLess(gwa_diff, <<2, 10>>) THEN <<7, 10>>
        ELSE <<6, 10>>

\* an overlap score without the neutral default: 0 when a slot set is empty
CalculateScheduleOverlapNoDefault(s1, s2) ==
    LET avail1 == {SlotKey(a) : a \in s1.availability}
        avail2 == {SlotKey(a) : a \in s2.availability}
        total_possible == Cardinality(avail1 \cup avail2)
    IN  IF total_possible > 0
        THEN Norm(<<Cardinality(avail1 \cap avail2), total_possible>>)
        ELSE <<0, 1>>

\* calculate_schedule_overlap: common slots over all slots, 0.5 without data
CalculateScheduleOverlap(s1, s2) ==
    LET avail1 == {SlotKey(a) : a \in s1.availability}
        avail2 == {SlotKey(a) : a \in s2.availability}
        common_slots   == avail1 \cap avail2
        total_possible == Cardinality(avail1 \cup avail2)
    IN  IF avail1 = {} \/ avail2 = {} THEN <<1, 2>>
        ELSE IF total_possible > 0
             THEN Norm(<<Cardinality(common_slots), total_possible>>)
             ELSE <<0, 1>>

CalculatePersonalityAsymmetric(s1, s2) ==
    LET traits1 == s1.traits
        traits2 == s2.traits
        consc_diff  == Abs(traits1.conscientiousness - traits2.conscientiousness)
        consc_score == <<4 - consc_diff, 4>>
        agree_score == <<traits1.agreeableness, 5>>
        extra_diff  == Abs(traits1.extraversion - traits2.extraversion)
        extra_score == <<extra_diff, 4>>
    IN  IF ~traits1.present \/ ~traits2.present THEN <<1, 2>>
        ELSE RAdd(RAdd(RMul(consc_score, <<4, 10>>), RMul(agree_score, <<4, 10>>)),
                  RMul(extra_score, <<2, 10>>))

CalculatePersonalityCompatibility(s1, s2) ==
    LET traits1 == s1.traits
        traits2 == s2.traits
        consc_diff  == Abs(traits1.conscientiousness - traits2.conscientiousness)
        consc_score == <<4 - consc_diff, 4>>
        \* ((a1 + a2) / 2) / 5.0
        agree_score == <<traits1.agreeableness + traits2.agreeableness, 10>>
        extra_diff  == Abs(traits1.extraversion - traits2.extraversion)
        extra_score == <<extra_diff, 4>>
    IN  IF ~traits1.present \/ ~traits2.present THEN <<1, 2>>
        ELSE RAdd(RAdd(RMul(consc_score, <<4, 10>>), RMul(agree_score, <<4, 10>>)),
                  RMul(extra_score, <<2, 10>>))

\* the weighted sum before rounding
OverallScore(skill_score, gwa_score, schedule_score, personality_score) ==
    RAdd(RAdd(RMul(skill_score, <<30, 100>>), RMul(gwa_score, <<20, 100>>)),
         RAdd(RMul(schedule_score, <<30, 100>>), RMul(personality_score, <<20, 100>>)))

\* thousandths
CalculateCompatibility(s1, s2) ==
    Round3(OverallScore(CalculateSkillDiversity(s1, s2),
                        CalculateGwaBalance(s1, s2),
                        CalculateScheduleOverlap(s1, s2),
                        CalculatePersonalityCompatibility(s1, s2)))

\* matrix[i][j] for i < j is computed once and stored at [i][j] and [j][i];
\* the diagonal keeps its initial 0.0
CreateCompatibilityMatrix(studs) ==
    [i \in 1..Len(studs) |-> [j \in 1..Len(studs) |->
        IF i = j THEN 0
        ELSE CalculateCompatibility(studs[Min2(i, j)], studs[Max2(i, j)])]]

---------------------------------------------------------------------------
(* Compatibility model: MatcherAgentGA *)

\* Python truthiness of a gwa value: None and 0 are falsy
GwaTruthy(g) == g # NoGwa /\ g # 0

CalculateCompatibilityGA(s1, s2) ==
    LET skills1 == {s.skill_name : s \in s1.skills}
        skills2 == {s.skill_name : s \in s2.skills}
        total   == Cardinality(skills1 \cup skills2)
        common  == Cardinality(skills1 \cap skills2)
        skill_score == IF skills1 # {} /\ skills2 # {}
                       THEN <<total - Abs(2 * common - total), total>>
                       ELSE <<1, 2>>
        gwa_diff  == <<Abs((50 - s1.gwa) - (50 - s2.gwa)), 40>>
        gwa_score == IF GwaTruthy(s1.gwa) /\ GwaTruthy(s2.gwa)
                     THEN IF RLeq(<<2, 10>>, gwa_diff) /\ RLeq(gwa_diff, <<5, 10>>)
                          THEN <<1, 1>>
                          ELSE IF RLess(gwa_diff, <<2, 10>>) THEN <<7, 10>>
                          ELSE <<6, 10>>
                     ELSE <<1, 2>>
        avail1 == {SlotKey(a) : a \in s1.availability}
        avail2 == {SlotKey(a) : a \in s2.availability}
        total_possible == Cardinality(avail1 \cup avail2)
        schedule_score == IF avail1 # {} /\ avail2 # {}
                          THEN IF total_possible > 0
                               THEN <<Cardinality(avail1 \cap avail2), total_possible>>
                               ELSE <<0, 1>>
                          ELSE <<1, 2>>
        traits1 == s1.traits
        traits2 == s2.traits
        consc_score == <<4 - Abs(traits1.conscientiousness - traits2.conscientiousness), 4>>
        agree_score == <<traits1.agreeableness + traits2.agreeableness, 10>>
        extra_score == <<Abs(traits1.extraversion - traits2.extraversion), 4>>
        personality_score ==
            IF traits1.present /\ traits2.present
            THEN RAdd(RAdd(RMul(consc_score, <<4, 10>>), RMul(agree_score, <<4, 10>>)),
                      RMul(extra_score, <<2, 10>>))
            ELSE <<1, 2>>
    IN  Round3(OverallScore(skill_score, gwa_score, schedule_score, personality_score))

CreateCompatibilityMatrixGA(studs) ==
    [i \in 1..Len(studs) |-> [j \in 1..Len(studs) |->
        IF i = j THEN 0
        ELSE CalculateCompatibilityGA(studs[Min2(i, j)], studs[Max2(i, j)])]]

---------------------------------------------------------------------------
(* Scoring one pair: the compatibility model applied to two individuals *)

NoScores == [skill |-> <<0, 1>>, gwa |-> <<0, 1>>, schedule |-> <<0, 1>>,
             personality |-> <<0, 1>>, overall |-> 0, reverse |-> 0,
             overall_ga |-> 0, reverse_ga |-> 0,
             matrix |-> <<>>, matrix_ga |-> <<>>]

\* calculate_compatibility(student1, student2) and, the other way round,
\* calculate_compatibility(student2, student1); create_compatibility_matrix of
\* both agents on the population [student1, student2]
ScorePair ==
    /\ cpc = "ready"
    /\ scores' = [scores EXCEPT
            !.skill       = CalculateSkillDiversity(student1, student2),
            !.gwa         = CalculateGwaBalance(student1, student2),
            !.schedule    = CalculateScheduleOverlap(student1, student2),
            !.personality = CalculatePersonalityCompatibility(student1, student2),
            !.overall     = CalculateCompatibility(student1, student2),
            !.reverse     = CalculateCompatibility(student2, student1),
            !.overall_ga  = CalculateCompatibilityGA(student1, student2),
            !.reverse_ga  = CalculateCompatibilityGA(student2, student1),
            !.matrix      = CreateCompatibilityMatrix(<<student1, student2>>),
            !.matrix_ga   = CreateCompatibilityMatrixGA(<<student1, student2>>)]
    /\ cpc' = "scored"
    /\ UNCHANGED <<student1, student2>>
    /\ UNCHANGED <<greedyVars, gaVars, decodeVars, coVars, dbVars, matchVars>>

---------------------------------------------------------------------------
(* MatcherAgent.form_groups_simple: the greedy constructor *)

min_group_size == 3

max_group_size == 5

\* group_compat / count over all pairs of the group, rounded to 3 decimals
GroupCompatibility(matrix, g) ==
    LET pairs == {<<i, j>> \in (1..Len(g)) \X (1..Len(g)) : i < j}
        count == Cardinality(pairs)
        RECURSIVE Total(_)
        Total(ps) == IF ps = {} THEN 0
                     ELSE LET p == CHOOSE q \in ps : TRUE
                          IN  matrix[g[p[1]]][g[p[2]]] + Total(ps \ {p})
    IN  IF count > 0 THEN Round3(<<Total(pairs), 1000 * count>>) ELSE 0

\* sum([compat_matrix[candidate][member] for member in group]) / len(group)
AvgCompat(matrix, candidate, g) ==
    <<SumSeq([k \in 1..Len(g) |-> matrix[candidate][g[k]]]), 1000 * Len(g)>>

\* a scan that finds no candidate
BestCandidateNone(matrix, ung, g) == {0}

\* a scan that may keep any candidate of the largest average
BestCandidateAnyOfBest(matrix, ung, g) ==
    LET ok == {k \in 1..Len(ung) : RLess(<<-1, 1>>, AvgCompat(matrix, ung[k], g))}
        best == {k \in ok : \A m \in ok :
                    RLeq(AvgCompat(matrix, ung[m], g), AvgCompat(matrix, ung[k], g))}
    IN  IF ok = {} THEN {0} ELSE {ung[k] : k \in best}

\* the scan "for candidate in ungrouped: if avg_compat > best_score": the first
\* candidate of the list whose average is the largest and exceeds -1; 0 is None
BestCandidate(matrix, ung, g) ==
    LET ok == {k \in 1..Len(ung) : RLess(<<-1, 1>>, AvgCompat(matrix, ung[k], g))}
        best == CHOOSE k \in ok :
                    /\ \A m \in ok :
                        RLeq(AvgCompat(matrix, ung[m], g), AvgCompat(matrix, ung[k], g))
                    /\ \A m \in ok : m < k =>
                        RLess(AvgCompat(matrix, ung[m], g), AvgCompat(matrix, ung[k], g))
    IN  IF ok = {} THEN {0} ELSE {ung[best]}

\* the latest-formed group of fewest members
SmallestGroupLast(gs) ==
    CHOOSE k \in 1..Len(gs) :
        /\ \A m \in 1..Len(gs) : Len(gs[k].members) <= Len(gs[m].members)
        /\ \A m \in (k + 1)..Len(gs) : Len(gs[m].members) > Len(gs[k].members)

\* min(groups, key=lambda g: len(g['members'])): the first group of least size
SmallestGroup(gs) ==
    CHOOSE k \in 1..Len(gs) :
        /\ \A m \in 1..Len(gs) : Len(gs[k].members) <= Len(gs[m].members)
        /\ \A m \in 1..(k - 1) : Len(gs[m].members) > Len(gs[k].members)

\* leftovers that are left out of every group
AppendLeftoverDropped(gs, ung) == gs

\* lines 295-297: every leftover index is appended to the smallest group

AppendLeftover(gs, ung) ==
    [gs EXCEPT ![SmallestGroup(gs)].members = @ \o ung]

\* form_groups_simple, lines 230-238: matrix, ungrouped = list(range(n)),
\* groups = [], group_num = 1
FormGroupsSimple ==
    /\ pc = "idle"
    /\ compat_matrix' = CreateCompatibilityMatrix(students)
    /\ ungrouped' = [i \in 1..Len(students) |-> i]
    /\ groups' = <<>>
    /\ group' = <<>>
    /\ group_num' = 1
    /\ picks' = <<>>
    /\ pc' = "loop"
    /\ UNCHANGED <<students, target_group_size, replay, first_run, run>>
    /\ UNCHANGED <<compatVars, gaVars, decodeVars, coVars, dbVars, matchVars>>

\* random.choice(ungrouped) draws an index below len(ungrouped); a replayed run
\* draws what the recorded random sequence holds at this position
SeedIndices ==
    IF run = 2 /\ Len(picks) < Len(replay)
    THEN {replay[Len(picks) + 1]} \cap (1..Len(ungrouped))
    ELSE 1..Len(ungrouped)

\* head of "while len(ungrouped) >= self.min_group_size" and the branch that
\* starts the group
OuterLoop ==
    /\ pc = "loop"
    /\ IF Len(ungrouped) < min_group_size
       THEN /\ pc' = "leftover"
            /\ UNCHANGED <<ungrouped, group, picks>>
       ELSE IF Len(ungrouped) < target_group_size
       THEN /\ group' = ungrouped
            /\ ungrouped' = <<>>
            /\ pc' = "score"
            /\ UNCHANGED picks
       ELSE \E idx \in SeedIndices :
            LET first_student == ungrouped[idx]
            IN  /\ group' = <<first_student>>
                /\ ungrouped' = RemoveFirst(ungrouped, first_student)
                /\ picks' = Append(picks, idx)
                /\ pc' = "inner"
    /\ UNCHANGED <<students, target_group_size, compat_matrix, groups, group_num,
                   replay, first_run, run>>
    /\ UNCHANGED <<compatVars, gaVars, decodeVars, coVars, dbVars, matchVars>>

\* one pass of "while len(group) < target_group_size and ungrouped"
InnerLoop ==
    /\ pc = "inner"
    /\ IF Len(group) < target_group_size /\ ungrouped # <<>>
       THEN \E best_candidate \in BestCandidate(compat_matrix, ungrouped, group) :
            IF best_candidate # 0
            THEN /\ group' = Append(group, best_candidate)
                 /\ ungrouped' = RemoveFirst(ungrouped, best_candidate)
                 /\ pc' = "inner"
            ELSE UNCHANGED <<group, ungrouped, pc>>
       ELSE /\ pc' = "score"
            /\ UNCHANGED <<group, ungrouped>>
    /\ UNCHANGED <<students, target_group_size, compat_matrix, groups, group_num,
                   picks, replay, first_run, run>>
    /\ UNCHANGED <<compatVars, gaVars, decodeVars, coVars, dbVars, matchVars>>

\* lines 271-289: score the group and append it
AppendGroup ==
    /\ pc = "score"
    /\ groups' = Append(groups,
            [group_num |-> group_num, members |-> group,
             compatibility_score |-> GroupCompatibility(compat_matrix, group)])
    /\ group_num' = group_num + 1
    /\ pc' = "loop"
    /\ UNCHANGED <<students, target_group_size, compat_matrix, ungrouped, group,
                   picks, replay, first_run, run>>
    /\ UNCHANGED <<compatVars, gaVars, decodeVars, coVars, dbVars, matchVars>>

\* lines 291-301: leftovers go to the smallest group; min() of no group raises
HandleLeftover ==
    /\ pc = "leftover"
    /\ IF ungrouped # <<>> /\ groups = <<>>
       THEN /\ pc' = "raised"
            /\ UNCHANGED groups
       ELSE /\ pc' = "done"
            /\ groups' = IF ungrouped # <<>>
                         THEN AppendLeftover(groups, ungrouped)
                         ELSE groups
    /\ UNCHANGED <<students, target_group_size, compat_matrix, ungrouped, group,
                   group_num, picks, replay, first_run, run>>
    /\ UNCHANGED <<compatVars, gaVars, decodeVars, coVars, dbVars, matchVars>>

\* a second run on the same agent, population and random sequence
Rerun ==
    /\ pc = "done"
    /\ run = 1
    /\ run' = 2
    /\ first_run' = groups
    /\ replay' = picks
    /\ pc' = "idle"
    /\ UNCHANGED <<students, target_group_size, compat_matrix, ungrouped, groups,
                   group, group_num, picks>>
    /\ UNCHANGED <<compatVars, gaVars, decodeVars, coVars, dbVars, matchVars>>

---------------------------------------------------------------------------
(* MatcherAgentGA: genome decoder and fitness *)

\* a gene is a float in [0, 1], held in hundredths.  random.random() yields
\* [0, 1); decoding only reads "gene > 0.5" and mutation only reads "not gene",
\* so 0, 25, 75 and 100 stand for 0.0, (0, 0.5], (0.5, 1) and 1.0
GeneThreshold == 50

\* a decoder that emits the dangling tail as a group of its own, whatever its size
RECURSIVE DecodeFromTailKept(_, _, _, _)
DecodeFromTailKept(individual, i, gs, current_group) ==
    IF i > Len(individual)
    THEN IF current_group # <<>> THEN Append(gs, current_group) ELSE gs
    ELSE LET cur == Append(current_group, i)
         IN  IF (individual[i] > GeneThreshold \/ Len(cur) >= max_group_size)
                /\ Len(cur) >= min_group_size
             THEN DecodeFromTailKept(individual, i + 1, Append(gs, cur), <<>>)
             ELSE DecodeFromTailKept(individual, i + 1, gs, cur)

\* the scan of decode_individual from gene i on, with the groups emitted so far
\* and the group being built
RECURSIVE DecodeFrom(_, _, _, _)
DecodeFrom(individual, i, gs, current_group) ==
    IF i > Len(individual)
    THEN IF current_group # <<>>
         THEN IF Len(current_group) >= min_group_size
              THEN Append(gs, current_group)
              ELSE IF gs # <<>>
              THEN LET smallest == CHOOSE k \in 1..Len(gs) :
                          /\ \A m \in 1..Len(gs) : Len(gs[k]) <= Len(gs[m])
                          /\ \A m \in 1..(k - 1) : Len(gs[m]) > Len(gs[k])
                   IN  [gs EXCEPT ![smallest] = @ \o current_group]
              ELSE gs
         ELSE gs
    ELSE LET cur == Append(current_group, i)
         IN  IF (individual[i] > GeneThreshold \/ Len(cur) >= max_group_size)
                /\ Len(cur) >= min_group_size
             THEN DecodeFrom(individual, i + 1, Append(gs, cur), <<>>)
             ELSE DecodeFrom(individual, i + 1, gs, cur)

\* decode_individual(individual, target_size): groups of student indices
DecodeIndividual(individual) == DecodeFrom(individual, 1, <<>>, <<>>)

\* mean pair score of a group, unrounded (0 without pairs)
MeanPairScore(matrix, g) ==
    LET pairs == {<<i, j>> \in (1..Len(g)) \X (1..Len(g)) : i < j}
        count == Cardinality(pairs)
        RECURSIVE Total(_)
        Total(ps) == IF ps = {} THEN 0
                     ELSE LET p == CHOOSE q \in ps : TRUE
                          IN  matrix[g[p[1]]][g[p[2]]] + Total(ps \ {p})
    IN  IF count > 0 THEN Norm(<<Total(pairs), 1000 * count>>) ELSE <<0, 1>>

\* a fitness that penalises a group of a wrong size by 1, not 100
RECURSIVE FitnessLightPenalty(_, _, _)
FitnessLightPenalty(matrix, gs, target_size) ==
    IF gs = <<>> THEN <<0, 1>>
    ELSE LET g == Head(gs)
             penalty == IF Len(g) < min_group_size \/ Len(g) > max_group_size
                        THEN <<-1, 1>> ELSE <<0, 1>>
             bonus == IF Len(g) = target_size THEN <<1, 10>> ELSE <<0, 1>>
         IN  RAdd(RAdd(RAdd(MeanPairScore(matrix, g), bonus), penalty),
                  FitnessLightPenalty(matrix, Tail(gs), target_size))

\* evaluate_grouping: total_fitness - penalty
RECURSIVE FitnessOfGroups(_, _, _)
FitnessOfGroups(matrix, gs, target_size) ==
    IF gs = <<>> THEN <<0, 1>>
    ELSE LET g == Head(gs)
             penalty == IF Len(g) < min_group_size \/ Len(g) > max_group_size
                        THEN <<-100, 1>> ELSE <<0, 1>>
             bonus == IF Len(g) = target_size THEN <<1, 10>> ELSE <<0, 1>>
         IN  RAdd(RAdd(RAdd(MeanPairScore(matrix, g), bonus), penalty),
                  FitnessOfGroups(matrix, Tail(gs), target_size))

EvaluateGrouping(matrix, individual, target_size) ==
    FitnessOfGroups(matrix, DecodeIndividual(individual), target_size)

\* the values a gene can take: 0.0, (0, 0.5], (0.5, 1), 1.0
GeneValues == {0, 25, 75, 100}

\* decode_individual applied to the genome drawn
Decode ==
    /\ dpc = "ready"
    /\ decoded' = DecodeIndividual(genome)
    /\ dpc' = "decoded"
    /\ UNCHANGED genome
    /\ UNCHANGED <<compatVars, greedyVars, gaVars, coVars, dbVars, matchVars>>

---------------------------------------------------------------------------
(* MatcherAgentGA.form_groups_ga: the evolutionary search *)

\* creator.Individual: a list of genes with a fitness that is valid or deleted
Individual(genes, fit) == [genes |-> genes, fitness |-> fit, valid |-> TRUE]

\* a changed individual that keeps the fitness it had
KeepFitness(ind) == ind

\* del ind.fitness.values
Invalidate(ind) == [genes |-> ind.genes, fitness |-> <<0, 1>>, valid |-> FALSE]

Evaluate(ind) ==
    Individual(ind.genes, EvaluateGrouping(ga_matrix, ind.genes, target_group_size))

\* max(aspirants, key=attrgetter("fitness")): the first aspirant of greatest fitness
TournamentWinner(aspirants) ==
    LET k == CHOOSE k \in 1..Len(aspirants) :
                /\ \A m \in 1..Len(aspirants) :
                    RLeq(population[aspirants[m]].fitness, population[aspirants[k]].fitness)
                /\ \A m \in 1..(k - 1) :
                    RLess(population[aspirants[m]].fitness, population[aspirants[k]].fitness)
    IN  population[aspirants[k]]

\* tools.cxTwoPoint: the slices [cxpoint1:cxpoint2] of the two lists are swapped
CxTwoPoint(g1, g2, cxpoint1, cxpoint2) ==
    [i \in 1..Len(g1) |-> IF i > cxpoint1 /\ i <= cxpoint2 THEN g2[i] ELSE g1[i]]

\* tools.mutFlipBit on floats: float(not gene) is 0.0 for a non-zero gene and
\* 1.0 for a zero gene
FlipGene(gene) == IF gene = 0 THEN 100 ELSE 0

MutFlipBit(genes, flipped) ==
    [i \in 1..Len(genes) |-> IF i \in flipped THEN FlipGene(genes[i]) ELSE genes[i]]

\* the first individual of the population, whatever its fitness
SelFirst(pop) == pop[1]

\* tools.selBest(population, 1)[0]: a stable descending sort, so the first
\* individual of greatest fitness
SelBest(pop) ==
    pop[CHOOSE k \in 1..Len(pop) :
            /\ \A m \in 1..Len(pop) : RLeq(pop[m].fitness, pop[k].fitness)
            /\ \A m \in 1..(k - 1) : RLess(pop[m].fitness, pop[k].fitness)]

\* fresh genomes of n genes drawn by random.random(): no gene above 0.5
\* (period 0), or every period-th gene above 0.5
InitGenomes(n) ==
    {[i \in 1..n |-> IF period > 0 /\ i % period = 0 THEN 75 ELSE 25] :
        period \in 0..MaxPeriod}

NoIndividual == [genes |-> <<>>, fitness |-> <<0, 1>>, valid |-> FALSE]

\* greatest fitness in a non-empty evaluated population
BestFitness(pop) == SelBest(pop).fitness

\* MatcherAgentGA.run step 2: create_compatibility_matrix
GaCreateMatrix ==
    /\ gpc = "idle"
    /\ ga_matrix' = CreateCompatibilityMatrixGA(students)
    /\ gpc' = "setup"
    /\ UNCHANGED <<population_size, generations, population, offspring, gen, slot,
                   ga_groups, best_individual, initial_best, evaluations>>
    /\ UNCHANGED <<compatVars, greedyVars, decodeVars, coVars, dbVars, matchVars>>

\* lines 217-232: toolbox.population(n=self.population_size)
GaInitPopulation ==
    /\ gpc = "setup"
    /\ \E pop \in [1..population_size -> InitGenomes(Len(students))] :
        population' = [i \in 1..population_size |-> Invalidate(Individual(pop[i], <<0, 1>>))]
    /\ offspring' = <<>>
    /\ gen' = 0
    /\ slot' = 1
    /\ evaluations' = 0
    /\ gpc' = "evaluate"
    /\ UNCHANGED <<population_size, generations, ga_matrix, ga_groups,
                   best_individual, initial_best>>
    /\ UNCHANGED <<compatVars, greedyVars, decodeVars, coVars, dbVars, matchVars>>

\* head of "for gen in range(self.generations)" and lines 238-240: every genome
\* of the population is evaluated
GaEvaluate ==
    /\ gpc = "evaluate"
    /\ IF gen < generations
       THEN /\ population' = [i \in 1..Len(population) |-> Evaluate(population[i])]
            /\ evaluations' = evaluations + Len(population)
            /\ initial_best' = IF gen = 0 /\ population # <<>>
                               THEN BestFitness(population')
                               ELSE initial_best
            /\ offspring' = <<>>
            /\ slot' = 1
            /\ gpc' = "select"
       ELSE /\ gpc' = "finish"
            /\ UNCHANGED <<population, evaluations, initial_best, offspring, slot>>
    /\ UNCHANGED <<population_size, generations, ga_matrix, gen, ga_groups,
                   best_individual>>
    /\ UNCHANGED <<compatVars, greedyVars, decodeVars, coVars, dbVars, matchVars>>

\* tools.selTournament(population, len(population), tournsize=3), one slot per
\* step: three aspirants drawn with replacement, the winner cloned
GaSelect ==
    /\ gpc = "select"
    /\ IF slot <= Len(population)
       THEN /\ \E a1 \in 1..Len(population), a2 \in 1..Len(population),
                  a3 \in 1..Len(population) :
                offspring' = Append(offspring, TournamentWinner(<<a1, a2, a3>>))
            /\ slot' = slot + 1
            /\ gpc' = "select"
       ELSE /\ slot' = 1
            /\ gpc' = "crossover"
            /\ UNCHANGED offspring
    /\ UNCHANGED <<population_size, generations, ga_matrix, population, gen,
                   ga_groups, best_individual, initial_best, evaluations>>
    /\ UNCHANGED <<compatVars, greedyVars, decodeVars, coVars, dbVars, matchVars>>

\* lines 247-251: successive pairs (offspring[0], offspring[1]), ... mate with
\* probability crossover_prob; both children lose their fitness.  cxTwoPoint
\* draws randint(1, size) and randint(1, size - 1): with a single gene the second
\* draw raises ValueError
GaCrossover ==
    /\ gpc = "crossover"
    /\ IF 2 * slot <= Len(offspring)
       THEN LET child1 == offspring[2 * slot - 1]
                child2 == offspring[2 * slot]
                size   == Min2(Len(child1.genes), Len(child2.genes))
            IN  \/ /\ UNCHANGED offspring
                   /\ slot' = slot + 1
                   /\ gpc' = "crossover"
                \/ /\ size < 2
                   /\ gpc' = "raised"
                   /\ UNCHANGED <<offspring, slot>>
                \/ /\ \E r1 \in 1..size, r2 \in 1..(size - 1) :
                      LET cxpoint1 == IF r2 >= r1 THEN r1 ELSE r2
                          cxpoint2 == IF r2 >= r1 THEN r2 + 1 ELSE r1
                      IN  offspring' = [offspring EXCEPT
                            ![2 * slot - 1] = Invalidate([child1 EXCEPT !.genes =
                                CxTwoPoint(child1.genes, child2.genes, cxpoint1, cxpoint2)]),
                            ![2 * slot] = Invalidate([child2 EXCEPT !.genes =
                                CxTwoPoint(child2.genes, child1.genes, cxpoint1, cxpoint2)])]
                   /\ slot' = slot + 1
                   /\ gpc' = "crossover"
       ELSE /\ slot' = 1
            /\ gpc' = "mutate"
            /\ UNCHANGED offspring
    /\ UNCHANGED <<population_size, generations, ga_matrix, population, gen,
                   ga_groups, best_individual, initial_best, evaluations>>
    /\ UNCHANGED <<compatVars, greedyVars, decodeVars, coVars, dbVars, matchVars>>

\* lines 254-257: each offspring mutates with probability mutation_prob; every
\* gene of a mutant flips with probability 0.05; the mutant loses its fitness
GaMutate ==
    /\ gpc = "mutate"
    /\ IF slot <= Len(offspring)
       THEN /\ \/ UNCHANGED offspring
               \/ \E flipped \in {f \in SUBSET (1..Len(offspring[slot].genes)) :
                                    Cardinality(f) <= MaxFlips} :
                    offspring' = [offspring EXCEPT ![slot] = Invalidate(
                        [offspring[slot] EXCEPT !.genes =
                            MutFlipBit(offspring[slot].genes, flipped)])]
            /\ slot' = slot + 1
            /\ gpc' = "mutate"
       ELSE /\ slot' = 1
            /\ gpc' = "reevaluate"
            /\ UNCHANGED offspring
    /\ UNCHANGED <<population_size, generations, ga_matrix, population, gen,
                   ga_groups, best_individual, initial_best, evaluations>>
    /\ UNCHANGED <<compatVars, greedyVars, decodeVars, coVars, dbVars, matchVars>>

\* lines 260-265: offspring without a valid fitness are evaluated; the offspring
\* replace the population
GaReevaluate ==
    /\ gpc = "reevaluate"
    /\ LET invalid_ind == {i \in 1..Len(offspring) : ~offspring[i].valid}
       IN  /\ population' = [i \in 1..Len(offspring) |->
                                IF i \in invalid_ind THEN Evaluate(offspring[i])
                                ELSE offspring[i]]
           /\ evaluations' = evaluations + Cardinality(invalid_ind)
    /\ offspring' = <<>>
    /\ gen' = gen + 1
    /\ gpc' = "evaluate"
    /\ UNCHANGED <<population_size, generations, ga_matrix, slot, ga_groups,
                   best_individual, initial_best>>
    /\ UNCHANGED <<compatVars, greedyVars, decodeVars, coVars, dbVars, matchVars>>

\* lines 273-306: the best genome of the final population is decoded and its
\* groups scored; with no evaluated genome, fitness.values[0] raises
GaFinish ==
    /\ gpc = "finish"
    /\ IF population = <<>> \/ generations < 1
       THEN /\ gpc' = "raised"
            /\ UNCHANGED <<best_individual, ga_groups>>
       ELSE /\ best_individual' = SelBest(population)
            /\ LET best_groups == DecodeIndividual(best_individual'.genes)
               IN  ga_groups' = [idx \in 1..Len(best_groups) |->
                        [group_num |-> idx, members |-> best_groups[idx],
                         compatibility_score |->
                            GroupCompatibility(ga_matrix, best_groups[idx])]]
            /\ gpc' = "done"
    /\ UNCHANGED <<population_size, generations, ga_matrix, population, offspring,
                   gen, slot, initial_best, evaluations>>
    /\ UNCHANGED <<compatVars, greedyVars, decodeVars, coVars, dbVars, matchVars>>

---------------------------------------------------------------------------
(* CoordinatorAgent: skill match and task allocation *)

\* complexity_order.get(level, 0)
ComplexityOrder(level) ==
    CASE level = "High" -> 3
      [] level = "Medium" -> 2
      [] level = "Low" -> 1
      [] OTHER -> 0

\* the tasks of s whose complexity key is k, in the order of s
WithKey(s, k) == SelectSeq(s, LAMBDA t : ComplexityOrder(t.complexity_level) = k)

RECURSIVE Reverse(_)
Reverse(s) == IF s = <<>> THEN <<>> ELSE Append(Reverse(Tail(s)), Head(s))

\* an ascending sort that is then reversed: equal tiers come out in reverse order
SortedThenReversed(ts) ==
    Reverse(WithKey(ts, 0) \o WithKey(ts, 1) \o WithKey(ts, 2) \o WithKey(ts, 3))

\* a sort that loses the items of the lowest tier
SortedWithoutLow(ts) ==
    WithKey(ts, 3) \o WithKey(ts, 2)

\* sorted(tasks, key=complexity_order, reverse=True): descending and stable
TasksSorted(ts) ==
    WithKey(ts, 3) \o WithKey(ts, 2) \o WithKey(ts, 1) \o WithKey(ts, 0)

\* evenly spaced weights: a Beginner row counts 0.4
ProficiencyWeightEven(proficiency) ==
    CASE proficiency = "Expert" -> 10
      [] proficiency = "Advanced" -> 8
      [] proficiency = "Intermediate" -> 6
      [] proficiency = "Beginner" -> 4
      [] OTHER -> 0

\* proficiency weight in tenths
ProficiencyWeight(proficiency) ==
    CASE proficiency = "Expert" -> 10
      [] proficiency = "Advanced" -> 8
      [] proficiency = "Intermediate" -> 6
      [] proficiency = "Beginner" -> 3
      [] OTHER -> 0

\* member_skills = {s['skill_name']: s for s in member['skills']}: the last row
\* of a name wins
MemberSkillRow(member, skill) ==
    LET rows == member.skills
        last == CHOOSE k \in 1..Len(rows) :
                    /\ rows[k].skill_name = skill
                    /\ \A m \in (k + 1)..Len(rows) : rows[m].skill_name # skill
    IN  rows[last]

CalculateSkillMatch(member, task) ==
    LET required == SeqToSet(task.required_skills)
        names == {member.skills[k].skill_name : k \in 1..Len(member.skills)}
        RECURSIVE MatchScore(_)
        MatchScore(rs) ==
            IF rs = {} THEN 0
            ELSE LET skill == CHOOSE r \in rs : TRUE
                 IN  (IF skill \in names
                      THEN ProficiencyWeight(MemberSkillRow(member, skill).proficiency_level)
                      ELSE 0) + MatchScore(rs \ {skill})
        final_score == Norm(<<MatchScore(required), 10 * Cardinality(required)>>)
    IN  IF task.required_skills = <<>> THEN <<1, 2>>
        ELSE IF names = {} THEN <<1, 10>>
        ELSE IF RLess(<<1, 1>>, final_score) THEN <<1, 1>> ELSE final_score

\* sum(m['assigned_hours'] for m in members)
TotalAssignedHours(ms) == SumSeq([k \in 1..Len(ms) |-> ms[k].assigned_hours])

\* skill_match * 0.7 + workload_factor * 0.3
CandidateScore(ms, k, task) ==
    LET avg_workload == <<TotalAssignedHours(ms), Len(ms)>>
        \* assigned_hours / (avg_workload + 0.1)
        denom == RAdd(avg_workload, <<1, 10>>)
        ratio == Norm(<<ms[k].assigned_hours * denom[2], denom[1]>>)
        workload_factor == RAdd(<<1, 1>>, <<-ratio[1], ratio[2]>>)
    IN  RAdd(RMul(CalculateSkillMatch(ms[k], task), <<7, 10>>),
             RMul(workload_factor, <<3, 10>>))

\* a choice by workload alone: the first member of least assigned hours
BestMemberByWorkload(ms, task) ==
    CHOOSE k \in 1..Len(ms) :
        /\ \A m \in 1..Len(ms) : ms[k].assigned_hours <= ms[m].assigned_hours
        /\ \A m \in 1..(k - 1) : ms[m].assigned_hours > ms[k].assigned_hours

\* a choice that keeps the last member of greatest score
BestMemberLast(ms, task) ==
    LET score == [m \in 1..Len(ms) |-> CandidateScore(ms, m, task)]
    IN  CHOOSE k \in 1..Len(ms) :
            /\ \A m \in 1..Len(ms) : RLeq(score[m], score[k])
            /\ \A m \in (k + 1)..Len(ms) : RLess(score[m], score[k])

\* max(candidates, key=score): the first member of greatest score
BestMember(ms, task) ==
    LET score == [m \in 1..Len(ms) |-> CandidateScore(ms, m, task)]
    IN  CHOOSE k \in 1..Len(ms) :
            /\ \A m \in 1..Len(ms) : RLeq(score[m], score[k])
            /\ \A m \in 1..(k - 1) : RLess(score[m], score[k])

\* a fetch without the status filter: every task of the group
AllTasks(ts) == ts

\* SELECT ... FROM tasks WHERE group_id = ? AND status = 'Pending'
PendingTasks(ts) == SelectSeq(ts, LAMBDA t : t.status = "Pending")

\* an assignment that leaves the task's status as it was
MarkNothing(ts, id) == ts

\* UPDATE tasks SET status = 'In Progress' WHERE id = ?
MarkInProgress(ts, id) ==
    [k \in 1..Len(ts) |->
        IF ts[k].id = id THEN [ts[k] EXCEPT !.status = "In Progress"] ELSE ts[k]]

\* an update that records the task on the member but not its hours
AddTaskOnly(ms, k, task) ==
    [ms EXCEPT ![k].assigned_tasks = Append(@, task.id)]

\* selected_member['assigned_hours'] += task['estimated_hours'];
\* selected_member['assigned_tasks'].append(task)
AddWorkload(ms, k, task) ==
    [ms EXCEPT ![k].assigned_hours = @ + task.estimated_hours,
               ![k].assigned_tasks = Append(@, task.id)]

\* lines 192-224: fetch the group's pending tasks, reset the members' workload,
\* sort the tasks
AllocateTasks ==
    /\ apc = "idle"
    /\ LET pending == PendingTasks(tasks)
       IN  IF pending = <<>>
           THEN /\ apc' = "done"
                /\ allocations' = <<>>
                /\ UNCHANGED <<members, tasks_sorted, apos>>
           ELSE /\ members' = [k \in 1..Len(members) |->
                        [members[k] EXCEPT !.assigned_hours = 0, !.assigned_tasks = <<>>]]
                /\ tasks_sorted' = TasksSorted(pending)
                /\ apos' = 1
                /\ allocations' = <<>>
                /\ apc' = "assign"
    /\ UNCHANGED <<tasks, task_assignments, calls>>
    /\ UNCHANGED <<compatVars, greedyVars, gaVars, decodeVars, dbVars, matchVars>>

\* one pass of "for task in tasks_sorted" (lines 227-280), then the return
AllocateNext ==
    /\ apc = "assign"
    /\ IF apos > Len(tasks_sorted)
       THEN /\ apc' = "done"
            /\ UNCHANGED <<members, tasks, task_assignments, apos, allocations>>
       ELSE IF members = <<>>
       THEN /\ apc' = "raised"
            /\ UNCHANGED <<members, tasks, task_assignments, apos, allocations>>
       ELSE LET task == tasks_sorted[apos]
                best == BestMember(members, task)
                selected_member == members[best]
            IN  /\ task_assignments' = Append(task_assignments,
                        [task_id |-> task.id, student_id |-> selected_member.id,
                         status |-> "Assigned"])
                /\ tasks' = MarkInProgress(tasks, task.id)
                /\ members' = AddWorkload(members, best, task)
                /\ allocations' = Append(allocations,
                        [task |-> task.id, assignee |-> selected_member.id,
                         skill_match |-> CalculateSkillMatch(selected_member, task),
                         hours |-> task.estimated_hours])
                /\ apos' = apos + 1
                /\ apc' = "assign"
    /\ UNCHANGED <<tasks_sorted, calls>>
    /\ UNCHANGED <<compatVars, greedyVars, gaVars, decodeVars, dbVars, matchVars>>

\* a later call of allocate_tasks on the same group
AllocateAgain ==
    /\ apc = "done"
    /\ calls < MaxCalls
    /\ calls' = calls + 1
    /\ apc' = "idle"
    /\ UNCHANGED <<members, tasks, task_assignments, tasks_sorted, apos, allocations>>
    /\ UNCHANGED <<compatVars, greedyVars, gaVars, decodeVars, dbVars, matchVars>>

\* calculate_skill_match applied to the member and task drawn
ScoreSkillMatch ==
    /\ spc = "ready"
    /\ skill_match' = CalculateSkillMatch(sm_member, sm_task)
    /\ spc' = "matched"
    /\ UNCHANGED <<sm_member, sm_task>>
    /\ UNCHANGED <<compatVars, greedyVars, gaVars, decodeVars, coVars, dbVars>>

---------------------------------------------------------------------------
(* A formation request: app.form_groups, the agent's run, the groups tables *)

\* insert_and_get_id: the row id the table gives the next row
NextRowId(rows) ==
    IF rows = <<>> THEN 1
    ELSE 1 + (CHOOSE x \in {rows[k].id : k \in 1..Len(rows)} :
                \A k \in 1..Len(rows) : rows[k].id <= x)

\* the group_members rows of one saved group: the first member is the leader
MemberRows(group_id, ms) ==
    [idx \in 1..Len(ms) |->
        [group_id |-> group_id, student_id |-> ms[idx],
         role |-> IF idx = 1 THEN "Leader" ELSE "Member"]]

\* save_groups_to_database: every group of gs is inserted as an Active group,
\* then its members; tables is [groups, group_members]
RECURSIVE SaveGroupsToDatabase(_, _, _)
SaveGroupsToDatabase(gs, prefix, tables) ==
    IF gs = <<>> THEN tables
    ELSE LET g == Head(gs)
             group_id == NextRowId(tables.groups)
         IN  SaveGroupsToDatabase(Tail(gs), prefix,
                [groups |-> Append(tables.groups,
                    [id |-> group_id, group_name |-> <<prefix, g.group_num>>,
                     compatibility_score |-> g.compatibility_score,
                     status |-> "Active"]),
                 group_members |-> tables.group_members \o MemberRows(group_id, g.members)])

\* a run that answers True whatever the formation step returned
RunSucceededAlways(outcome, gs) == TRUE

\* run: an exception of the formation step is caught and answered False, and so
\* is "if not groups"
RunSucceeded(outcome, gs) == outcome = "done" /\ gs # <<>>

\* app.form_groups up to agent.run, and step 1 of run: the tables are cleared
\* on clear_existing, a new agent is made, fetch_students answers False when
\* there is no student
FormGroups ==
    /\ rpc \in {"idle", "done"}
    /\ requests < MaxRequests
    /\ requests' = requests + 1
    /\ \E alg \in {"ga", "simple"}, clear_existing \in BOOLEAN :
        /\ algorithm' = alg
        /\ IF clear_existing
           THEN /\ task_assignments' = <<>>
                /\ tasks' = <<>>
                /\ db_group_members' = <<>>
                /\ db_groups' = <<>>
           ELSE UNCHANGED <<task_assignments, tasks, db_group_members, db_groups>>
        /\ IF students = <<>>
           THEN /\ success' = "false"
                /\ rpc' = "done"
                /\ pc' = "off"
                /\ gpc' = "off"
           ELSE /\ success' = "none"
                /\ rpc' = "running"
                /\ pc' = IF alg = "simple" THEN "idle" ELSE "off"
                /\ gpc' = IF alg = "ga" THEN "idle" ELSE "off"
    /\ compat_matrix' = <<>>
    /\ ungrouped' = <<>>
    /\ groups' = <<>>
    /\ group' = <<>>
    /\ group_num' = 1
    /\ picks' = <<>>
    /\ ga_matrix' = <<>>
    /\ population' = <<>>
    /\ offspring' = <<>>
    /\ gen' = 0
    /\ slot' = 1
    /\ ga_groups' = <<>>
    /\ best_individual' = NoIndividual
    /\ initial_best' = <<0, 1>>
    /\ evaluations' = 0
    /\ UNCHANGED <<students, target_group_size, replay, first_run, run,
                   population_size, generations>>
    /\ UNCHANGED <<members, tasks_sorted, apos, allocations, apc, calls>>
    /\ UNCHANGED <<compatVars, decodeVars, matchVars>>

\* MatcherAgent.run after form_groups_simple: save_groups_to_database and the
\* answer
SaveGroups ==
    /\ rpc = "running"
    /\ algorithm = "simple"
    /\ pc \in {"done", "raised"}
    /\ IF RunSucceeded(pc, groups)
       THEN LET saved == SaveGroupsToDatabase(groups, "Group",
                            [groups |-> db_groups, group_members |-> db_group_members])
            IN  /\ db_groups' = saved.groups
                /\ db_group_members' = saved.group_members
                /\ success' = "true"
       ELSE /\ success' = "false"
            /\ UNCHANGED <<db_groups, db_group_members>>
    /\ rpc' = "done"
    /\ UNCHANGED <<algorithm, requests>>
    /\ UNCHANGED <<compatVars, greedyVars, gaVars, decodeVars, coVars, matchVars>>

\* MatcherAgentGA.run after form_groups_ga: save_groups_to_database and the
\* answer
SaveGroupsGA ==
    /\ rpc = "running"
    /\ algorithm = "ga"
    /\ gpc \in {"done", "raised"}
    /\ IF RunSucceeded(gpc, ga_groups)
       THEN LET saved == SaveGroupsToDatabase(ga_groups, "GA Group",
                            [groups |-> db_groups, group_members |-> db_group_members])
            IN  /\ db_groups' = saved.groups
                /\ db_group_members' = saved.group_members
                /\ success' = "true"
       ELSE /\ success' = "false"
            /\ UNCHANGED <<db_groups, db_group_members>>
    /\ rpc' = "done"
    /\ UNCHANGED <<algorithm, requests>>
    /\ UNCHANGED <<compatVars, greedyVars, gaVars, decodeVars, coVars, matchVars>>

---------------------------------------------------------------------------
(* Initial states *)

CompatOff ==
    /\ student1 = Student({}, NoGwa, {}, NoTraits)
    /\ student2 = Student({}, NoGwa, {}, NoTraits)
    /\ scores = NoScores
    /\ cpc = "off"

GreedyBlank ==
    /\ compat_matrix = <<>>
    /\ ungrouped = <<>>
    /\ groups = <<>>
    /\ group = <<>>
    /\ group_num = 1
    /\ picks = <<>>
    /\ replay = <<>>
    /\ first_run = <<>>
    /\ run = 1

GreedyOff ==
    /\ students = <<>>
    /\ target_group_size = 4
    /\ pc = "off"
    /\ GreedyBlank

GaBlank ==
    /\ ga_matrix = <<>>
    /\ population = <<>>
    /\ offspring = <<>>
    /\ gen = 0
    /\ slot = 1
    /\ ga_groups = <<>>
    /\ best_individual = NoIndividual
    /\ initial_best = <<0, 1>>
    /\ evaluations = 0

GaOff ==
    /\ population_size = 50
    /\ generations = 100
    /\ gpc = "off"
    /\ GaBlank

DecodeOff ==
    /\ genome = <<>>
    /\ decoded = <<>>
    /\ dpc = "off"

MatchOff ==
    /\ sm_member = <<>>
    /\ sm_task = <<>>
    /\ skill_match = <<0, 1>>
    /\ spc = "off"

DbOff ==
    /\ db_groups = <<>>
    /\ db_group_members = <<>>
    /\ algorithm = "none"
    /\ success = "none"
    /\ rpc = "off"
    /\ requests = 0

CoOff ==
    /\ members = <<>>
    /\ tasks = <<>>
    /\ task_assignments = <<>>
    /\ tasks_sorted = <<>>
    /\ apos = 1
    /\ allocations = <<>>
    /\ apc = "off"
    /\ calls = 1

\* three individuals: two with full records, one with every attribute absent
ProfileA == Student({SkillRow("Python")}, 10, {AvailRow("AM")}, Traits(5, 5, 1))
ProfileB == Student({SkillRow("Python"), SkillRow("SQL")}, 20,
                    {AvailRow("AM"), AvailRow("PM")}, Traits(1, 5, 5))
ProfileC == Student({}, NoGwa, {}, NoTraits)

Profiles == {ProfileA, ProfileB}

\* 0 stands for every non-positive target_group_size
TargetSizes == 0..MaxTarget

InitCompat ==
    /\ student1 \in CompatStudents
    /\ student2 \in CompatStudents
    /\ scores = NoScores
    /\ cpc = "ready"
    /\ GreedyOff /\ GaOff /\ DecodeOff /\ CoOff /\ DbOff /\ MatchOff

InitGreedy ==
    /\ students \in UNION {[1..n -> Profiles] : n \in 0..MaxPop}
    /\ target_group_size \in TargetSizes
    /\ pc = "idle"
    /\ GreedyBlank
    /\ CompatOff /\ GaOff /\ DecodeOff /\ CoOff /\ DbOff /\ MatchOff

\* populations of every size 0..MaxPop, mixed profiles, under every target
TerminationStudents == [i \in 1..MaxPop |->
    IF i % 3 = 1 THEN ProfileA ELSE IF i % 3 = 2 THEN ProfileB ELSE ProfileC]

InitTermination ==
    /\ students \in {SubSeq(TerminationStudents, 1, n) : n \in 0..MaxPop}
    /\ target_group_size \in TargetSizes
    /\ pc = "idle"
    /\ GreedyBlank
    /\ CompatOff /\ GaOff /\ DecodeOff /\ CoOff /\ DbOff /\ MatchOff

\* six individuals, the least population the decoder can split in two
GaStudents == <<ProfileA, ProfileB, ProfileC, ProfileB, ProfileA, ProfileA>>

GaTargets == {3}

InitGA ==
    /\ students = GaStudents
    /\ target_group_size \in GaTargets
    /\ pc = "off"
    /\ GreedyBlank
    /\ population_size = PopSize
    /\ generations = Generations
    /\ gpc = "idle"
    /\ GaBlank
    /\ CompatOff /\ DecodeOff /\ CoOff /\ DbOff /\ MatchOff

\* the end-to-end scenario: 12 individuals, target size 4
E2EStudents == [i \in 1..12 |->
    IF i % 3 = 1 THEN ProfileA ELSE IF i % 3 = 2 THEN ProfileB ELSE ProfileC]

InitE2E ==
    /\ students = E2EStudents
    /\ target_group_size = 4
    /\ GreedyBlank
    /\ population_size = 1
    /\ generations = 1
    /\ GaBlank
    /\ \/ pc = "idle" /\ gpc = "off"
       \/ pc = "off" /\ gpc = "idle"
    /\ CompatOff /\ DecodeOff /\ CoOff /\ DbOff /\ MatchOff

\* the boundary population: exactly min_group_size individuals, grouped by the
\* greedy constructor or by the decoder
InitBoundary ==
    /\ students \in [1..min_group_size -> Profiles]
    /\ target_group_size \in 1..MaxTarget
    /\ GreedyBlank
    /\ decoded = <<>>
    /\ \/ pc = "idle" /\ dpc = "off" /\ genome = <<>>
       \/ pc = "off" /\ dpc = "ready"
          /\ genome \in [1..min_group_size -> GeneValues]
    /\ CompatOff /\ GaOff /\ CoOff /\ DbOff /\ MatchOff

\* group members as fetch_groups loads them: id and skill rows
MemberSkills ==
    {<<>>,
     <<[skill_name |-> "Python", proficiency_level |-> "Expert"]>>,
     <<[skill_name |-> "SQL", proficiency_level |-> "Beginner"]>>}

Member(id, sk) == [id |-> id, skills |-> sk, assigned_hours |-> 0,
                   assigned_tasks |-> <<>>]

TaskTiers == {"High", "Medium", "Low"}

\* effort and required skills of the tasks drawn
TaskShapes == {[hours |-> 10, req |-> <<>>], [hours |-> 20, req |-> <<"Python">>]}

Task(id, tier, hours, req) ==
    [id |-> id, required_skills |-> req, complexity_level |-> tier,
     estimated_hours |-> hours, status |-> "Pending"]

InitAlloc ==
    /\ \E n \in 0..MaxMembers : \E sk \in [1..n -> MemberSkills] :
        members = [k \in 1..n |-> Member(k, sk[k])]
    /\ \E n \in 0..MaxTasks :
        \E tier \in [1..n -> TaskTiers], shape \in [1..n -> TaskShapes] :
            tasks = [k \in 1..n |-> Task(k, tier[k], shape[k].hours, shape[k].req)]
    /\ task_assignments = <<>>
    /\ tasks_sorted = <<>>
    /\ apos = 1
    /\ allocations = <<>>
    /\ apc = "idle"
    /\ calls = 1
    /\ CompatOff /\ GreedyOff /\ GaOff /\ DecodeOff /\ DbOff /\ MatchOff

\* skills of the matched groups: member k holds MatchedSkills[k] and nothing else
MatchedSkills == <<"MySQL", "Flask", "React", "Testing">>

MatchedProficiencies == {"Expert", "Beginner"}

MatchedTiers == {"High", "Low"}

MatchedHours == {5, 40}

\* the ways to give each of n tasks a different holder
HolderOrders(n) == {f \in [1..n -> 1..n] : \A i, j \in 1..n : i # j => f[i] # f[j]}

\* k members and k pending tasks; task i requires the one skill of member
\* holder[i], holders pairwise different; workloads start at 0
InitMatched ==
    /\ \E k \in 1..MaxMatched :
        \E prof \in [1..k -> MatchedProficiencies], tier \in [1..k -> MatchedTiers],
           hours \in [1..k -> MatchedHours], holder \in HolderOrders(k) :
            /\ members = [m \in 1..k |->
                    Member(m, <<[skill_name |-> MatchedSkills[m],
                                 proficiency_level |-> prof[m]]>>)]
            /\ tasks = [i \in 1..k |->
                    Task(i, tier[i], hours[i], <<MatchedSkills[holder[i]]>>)]
    /\ task_assignments = <<>>
    /\ tasks_sorted = <<>>
    /\ apos = 1
    /\ allocations = <<>>
    /\ apc = "idle"
    /\ calls = 1
    /\ CompatOff /\ GreedyOff /\ GaOff /\ DecodeOff /\ DbOff /\ MatchOff

\* skill rows of one member: no row, one row, or a row of each of two skills,
\* at any proficiency the table holds
SkillMatchProficiencies == {"Expert", "Advanced", "Intermediate", "Beginner", "Novice"}

SkillMatchRows ==
    {<<>>}
    \cup {<<[skill_name |-> n, proficiency_level |-> p]>> :
            n \in {"Python", "SQL"}, p \in SkillMatchProficiencies}
    \cup {<<[skill_name |-> "Python", proficiency_level |-> p],
             [skill_name |-> "SQL", proficiency_level |-> q]>> :
            p \in SkillMatchProficiencies, q \in SkillMatchProficiencies}

\* required skills of one task, as parsed from the comma-separated column
SkillMatchRequired ==
    {<<>>, <<"Python">>, <<"SQL">>, <<"Flask">>, <<"Python", "SQL">>,
     <<"SQL", "Flask">>, <<"Python", "SQL", "Flask">>, <<"Python", "Python", "SQL">>}

InitSkillMatch ==
    /\ sm_member \in {Member(1, sk) : sk \in SkillMatchRows}
    /\ sm_task \in {Task(1, "High", 20, req) : req \in SkillMatchRequired}
    /\ skill_match = <<0, 1>>
    /\ spc = "ready"
    /\ CompatOff /\ GreedyOff /\ GaOff /\ DecodeOff /\ CoOff /\ DbOff

\* the decoder on any genome of 1..MaxGenes genes
InitDecode ==
    /\ genome \in UNION {[1..n -> GeneValues] : n \in 1..MaxGenes}
    /\ decoded = <<>>
    /\ dpc = "ready"
    /\ CompatOff /\ GreedyOff /\ GaOff /\ CoOff /\ DbOff /\ MatchOff

\* population_size and generations as a caller may set them on the agent
ConfigPopulationSizes == {-1, 0, PopSize}

ConfigGenerations == {0, Generations}

\* the evolutionary search under any such configuration, on four individuals
InitConfig ==
    /\ students = SubSeq(GaStudents, 1, 4)
    /\ target_group_size = 4
    /\ pc = "off"
    /\ GreedyBlank
    /\ population_size \in ConfigPopulationSizes
    /\ generations \in ConfigGenerations
    /\ gpc = "idle"
    /\ GaBlank
    /\ CompatOff /\ DecodeOff /\ CoOff /\ DbOff /\ MatchOff

\* the students table of a formation request: the first n individuals
InitRun ==
    /\ \E n \in 0..MaxRunPop : students = SubSeq(GaStudents, 1, n)
    /\ target_group_size = 4
    /\ pc = "off"
    /\ GreedyBlank
    /\ population_size = PopSize
    /\ generations = Generations
    /\ gpc = "off"
    /\ GaBlank
    /\ db_groups = <<>>
    /\ db_group_members = <<>>
    /\ algorithm = "none"
    /\ success = "none"
    /\ rpc = "idle"
    /\ requests = 0
    /\ CompatOff /\ DecodeOff /\ CoOff /\ MatchOff

---------------------------------------------------------------------------
(* Specifications *)

NextCompat == ScorePair

NextGreedy ==
    \/ FormGroupsSimple \/ OuterLoop \/ InnerLoop \/ AppendGroup
    \/ HandleLeftover \/ Rerun

NextGA ==
    \/ GaCreateMatrix \/ GaInitPopulation \/ GaEvaluate \/ GaSelect
    \/ GaCrossover \/ GaMutate \/ GaReevaluate \/ GaFinish

NextE2E ==
    \/ FormGroupsSimple \/ OuterLoop \/ InnerLoop \/ AppendGroup \/ HandleLeftover
    \/ GaCreateMatrix \/ GaInitPopulation \/ GaEvaluate \/ GaSelect
    \/ GaCrossover \/ GaMutate \/ GaReevaluate \/ GaFinish

NextBoundary ==
    \/ FormGroupsSimple \/ OuterLoop \/ InnerLoop \/ AppendGroup \/ HandleLeftover
    \/ Decode

NextAlloc == AllocateTasks \/ AllocateNext \/ AllocateAgain

SpecCompat == InitCompat /\ [][NextCompat]_vars

SpecGreedy == InitGreedy /\ [][NextGreedy]_vars

\* the first step of a call, by its effect on the position alone: under
\* NextGreedy the only step from "idle" to "loop" is FormGroupsSimple, which is
\* enabled whenever pc = "idle"
EnterLoop == pc = "idle" /\ pc' = "loop"

\* the interpreter runs form_groups_simple statement by statement: a step
\* that can be taken is taken
SpecGreedyFair ==
    /\ InitTermination /\ [][NextGreedy]_vars
    /\ WF_pc(EnterLoop)
    /\ WF_greedyVars(OuterLoop) /\ WF_greedyVars(InnerLoop)
    /\ WF_greedyVars(AppendGroup) /\ WF_greedyVars(HandleLeftover)
    /\ WF_greedyVars(Rerun)

SpecGA == InitGA /\ [][NextGA]_vars

SpecE2E == InitE2E /\ [][NextE2E]_vars

SpecBoundary == InitBoundary /\ [][NextBoundary]_vars

SpecAlloc == InitAlloc /\ [][NextAlloc]_vars

NextRun ==
    \/ FormGroups \/ SaveGroups \/ SaveGroupsGA
    \/ FormGroupsSimple \/ OuterLoop \/ InnerLoop \/ AppendGroup \/ HandleLeftover
    \/ GaCreateMatrix \/ GaInitPopulation \/ GaEvaluate \/ GaSelect
    \/ GaCrossover \/ GaMutate \/ GaReevaluate \/ GaFinish

SpecRun == InitRun /\ [][NextRun]_vars

SpecConfig == InitConfig /\ [][NextGA]_vars

SpecDecode == InitDecode /\ [][Decode]_vars

SpecSkillMatch == InitSkillMatch /\ [][ScoreSkillMatch]_vars

SpecMatched == InitMatched /\ [][NextAlloc]_vars

Init == InitGreedy

Next == NextGreedy

Spec == SpecGreedy

---------------------------------------------------------------------------
(* Properties *)

\* how often individual i occurs among the members of the groups gs
Occurrences(gs, i) ==
    SumSeq([k \in 1..Len(gs) |->
        Cardinality({m \in 1..Len(gs[k].members) : gs[k].members[m] = i})])

\* the groups gs hold each of the individuals 1..n exactly once and nobody else
IsPartition(gs, n) ==
    /\ \A i \in 1..n : Occurrences(gs, i) = 1
    /\ SumSeq([k \in 1..Len(gs) |-> Len(gs[k].members)]) = n

\* C1: for a population of at least min_size individuals and any target size,
\* the groups form_groups_simple returns hold every individual exactly once
\* (leftovers included): no duplicate, no omission.
C1_GreedyPartition ==
    (pc = "done" /\ Len(students) >= min_group_size)
        => IsPartition(groups, Len(students))

\* a run that returned several groups and appended leftovers to one of them
C1_Witness ==
    /\ pc = "done"
    /\ Len(students) = 5
    /\ Len(groups) = 2
    /\ ungrouped # <<>>
    /\ IsPartition(groups, Len(students))

\* C2: every group form_groups_simple returns has at least min_size members,
\* for every population size and every target_group_size, also one below
\* min_size.
C2_GreedyMinSize ==
    (pc = "done" /\ Len(students) >= min_group_size)
        => \A k \in 1..Len(groups) : Len(groups[k].members) >= min_group_size

C4_TierOrder ==
    \A i \in 1..Len(allocations), j \in 1..Len(allocations) :
        i < j =>
            LET ti == tasks[allocations[i].task]
                tj == tasks[allocations[j].task]
            IN  \/ ComplexityOrder(ti.complexity_level) > ComplexityOrder(tj.complexity_level)
                \/ /\ ComplexityOrder(ti.complexity_level) = ComplexityOrder(tj.complexity_level)
                   /\ allocations[i].task < allocations[j].task

\* an input of a Low item followed by two High items, all three assigned
C4_Witness ==
    /\ apc = "done"
    /\ Len(tasks) = 3
    /\ tasks[1].complexity_level = "Low"
    /\ tasks[2].complexity_level = "High"
    /\ tasks[3].complexity_level = "High"
    /\ [k \in 1..Len(allocations) |-> allocations[k].task] = <<2, 3, 1>>

\* rows of task_assignments for task id
AssignmentsOf(id) == {k \in 1..Len(task_assignments) : task_assignments[k].task_id = id}

MemberIds == {members[k].id : k \in 1..Len(members)}

\* C5: on a group with at least one member allocate_tasks produces exactly one
\* assignment per pending work item, each bound to exactly one member of the
\* group.
C5_OneAssignmentPerItem ==
    (apc = "done" /\ members # <<>>) =>
        /\ \A t \in 1..Len(tasks) :
            /\ Cardinality(AssignmentsOf(tasks[t].id)) = 1
            /\ \A k \in AssignmentsOf(tasks[t].id) :
                task_assignments[k].student_id \in MemberIds
        /\ calls = 1 =>
            /\ Len(allocations) = Len(tasks)
            /\ \A t \in 1..Len(tasks) :
                Cardinality({k \in 1..Len(allocations) :
                    allocations[k].task = tasks[t].id}) = 1
            /\ \A k \in 1..Len(allocations) : allocations[k].assignee \in MemberIds

\* three pending items allocated among two members
C5_Witness ==
    /\ apc = "done"
    /\ calls = 1
    /\ Len(members) = 2
    /\ Len(tasks) = 3
    /\ Len(allocations) = 3
    /\ {allocations[k].assignee : k \in 1..Len(allocations)} = {1, 2}

\* C6: the pairwise score is symmetric, calculate_compatibility(a, b) =
\* calculate_compatibility(b, a), and so is the matrix of either agent.
C6_Symmetric ==
    cpc = "scored" =>
        /\ scores.overall = scores.reverse
        /\ scores.overall_ga = scores.reverse_ga
        /\ scores.matrix[1][2] = scores.matrix[2][1]
        /\ scores.matrix_ga[1][2] = scores.matrix_ga[2][1]

\* two individuals with different records, every attribute present
C6_Witness ==
    /\ cpc = "scored"
    /\ student1.traits.present /\ student2.traits.present
    /\ student1.traits.agreeableness # student2.traits.agreeableness
    /\ student1.skills # {} /\ student2.skills # student1.skills /\ student2.skills # {}
    /\ student1.gwa = 10 /\ student2.gwa = 50
    /\ scores.overall = scores.reverse
    /\ scores.matrix[1][2] = scores.matrix[2][1]

\* C7: for any two individuals (attribute sets possibly empty, trait values on
\* the 1..5 scale) the overall score and its four sub-scores lie in [0, 1].
C7_UnitRange ==
    cpc = "scored" =>
        /\ InUnit(scores.skill)
        /\ InUnit(scores.gwa)
        /\ InUnit(scores.schedule)
        /\ InUnit(scores.personality)
        /\ scores.overall >= 0 /\ scores.overall <= 1000

\* a pair whose four sub-scores all reach 1
C7_Witness ==
    /\ cpc = "scored"
    /\ scores.skill = <<1, 1>>
    /\ scores.gwa = <<1, 1>>
    /\ scores.schedule = <<1, 1>>
    /\ scores.personality = <<1, 1>>
    /\ scores.overall = 1000

\* C3 as stated: the genome returned after the last generation is at least as
\* fit as every genome of the initial random population.
C3_NoRegression ==
    gpc = "done" => RLeq(initial_best, best_individual.fitness)

\* C3 as amended: the genome returned is at least as fit as every genome of the
\* final population, and its stored fitness is that of its genes.
C3_BestOfFinalPopulation ==
    gpc = "done" =>
        /\ \A i \in 1..Len(population) :
            RLeq(population[i].fitness, best_individual.fitness)
        /\ best_individual.valid
        /\ best_individual.fitness =
            EvaluateGrouping(ga_matrix, best_individual.genes, target_group_size)

\* a finished run whose offspring were changed and evaluated again, and whose
\* best genome is less fit than the best initial one
C3_Witness ==
    /\ gpc = "done"
    /\ Len(population) = PopSize
    /\ evaluations > Len(population)
    /\ RLess(best_individual.fitness, initial_best)
    /\ best_individual = SelBest(population)

\* the one group holding all n individuals
OneGroupOfAll(members_of, n) ==
    /\ Len(members_of) = 1
    /\ Len(members_of[1]) = n
    /\ SeqToSet(members_of[1]) = 1..n

\* C9: a population of exactly min_size individuals yields exactly one group
\* holding all of them, under form_groups_simple for any target size >= 1 and
\* under decode_individual for any genome.
C9_Boundary ==
    /\ pc = "done" =>
        OneGroupOfAll([k \in 1..Len(groups) |-> groups[k].members], Len(students))
    /\ dpc = "decoded" => OneGroupOfAll(decoded, Len(genome))

\* the greedy run with a target below min_size: the group of two takes the leftover
C9_Witness ==
    /\ pc = "done"
    /\ target_group_size = 2
    /\ ungrouped # <<>>
    /\ OneGroupOfAll([k \in 1..Len(groups) |-> groups[k].members], min_group_size)

\* exactly 3 groups, each with min_size..max_size members, holding each of the
\* n individuals once
ThreeBoundedGroups(gs, n) ==
    /\ Len(gs) = 3
    /\ \A k \in 1..Len(gs) :
        Len(gs[k].members) >= min_group_size /\ Len(gs[k].members) <= max_group_size
    /\ IsPartition(gs, n)

\* C10: 12 individuals, target_size 4, min_size 3, max_size 5: a formation run,
\* greedy or evolutionary, returns exactly 3 groups of 3..5 members holding each
\* individual exactly once.
C10_EndToEnd ==
    /\ pc = "done" => ThreeBoundedGroups(groups, Len(students))
    /\ gpc = "done" => ThreeBoundedGroups(ga_groups, Len(students))

\* the members of the group who hold, at a recognised proficiency, a skill the
\* task of this id requires
HoldersOf(id) ==
    {m \in 1..Len(members) :
        \E t \in 1..Len(tasks), r \in 1..Len(members[m].skills) :
            /\ tasks[t].id = id
            /\ members[m].skills[r].skill_name \in SeqToSet(tasks[t].required_skills)
            /\ ProficiencyWeight(members[m].skills[r].proficiency_level) > 0}

\* C11: k members and k work items with pairwise disjoint required skills, each
\* held by exactly one distinct member, workloads starting at 0: every item is
\* assigned to the member who holds its skills, whatever the tiers, efforts and
\* input order.
C11_MatchedAssignment ==
    /\ \A r \in 1..Len(task_assignments) :
        HoldersOf(task_assignments[r].task_id) = {task_assignments[r].student_id}
    /\ apc = "done" =>
        \A t \in 1..Len(tasks) : Cardinality(AssignmentsOf(tasks[t].id)) = 1

\* three items given in an order other than their holders', the heaviest first,
\* all assigned
C11_Witness ==
    /\ apc = "done"
    /\ Len(members) = 3
    /\ Len(task_assignments) = 3
    /\ tasks[1].estimated_hours = 40
    /\ HoldersOf(tasks[1].id) = {3}
    /\ HoldersOf(tasks[2].id) = {1}
    /\ tasks[1].complexity_level = "Low" /\ tasks[2].complexity_level = "High"
    /\ members[3].skills[1].proficiency_level = "Beginner"
    /\ \A r \in 1..Len(task_assignments) :
        HoldersOf(task_assignments[r].task_id) = {task_assignments[r].student_id}

\* C12: with fewer than min_size individuals a formation run (MatcherAgent.run
\* or MatcherAgentGA.run) answers failure and saves nothing: no group row and
\* no group-membership row.
C12_InsufficientPopulation ==
    Len(students) < min_group_size =>
        /\ db_groups = <<>>
        /\ db_group_members = <<>>
        /\ rpc = "done" => success = "false"

\* two individuals: a greedy request that raised, then an evolutionary request
\* that decoded no group; both answered failure
C12_Witness ==
    /\ Len(students) = 2
    /\ rpc = "done"
    /\ requests = 2
    /\ pc = "off"
    /\ algorithm = "ga"
    /\ gpc = "done"
    /\ ga_groups = <<>>
    /\ success = "false"
    /\ db_groups = <<>>

\* the Active groups that hold the student
ActiveGroupsOf(student_id) ==
    {db_group_members[r].group_id : r \in
        {r \in 1..Len(db_group_members) :
            /\ db_group_members[r].student_id = student_id
            /\ \E g \in 1..Len(db_groups) :
                /\ db_groups[g].id = db_group_members[r].group_id
                /\ db_groups[g].status = "Active"}}

\* C13: a new formation run supersedes the prior groups: after any sequence of
\* formation runs, with or without clear_existing, no student is a member of
\* more than one Active group.
C13_OneActiveGroup ==
    \A i \in 1..Len(students) : Cardinality(ActiveGroupsOf(i)) <= 1

\* every group of gs carries the rounded mean pair score of its members
ScoresAreMeans(matrix, gs) ==
    \A k \in 1..Len(gs) :
        gs[k].compatibility_score = GroupCompatibility(matrix, gs[k].members)

\* C14: the aggregate compatibility score of every group a formation run
\* returns, greedy or evolutionary, is the mean of the matrix scores over all
\* pairs of the group's returned members (0 for a single member), rounded to 3
\* decimals, also for a group that received leftover individuals.
C14_AggregateScore ==
    /\ pc = "done" => ScoresAreMeans(compat_matrix, groups)
    /\ gpc = "done" => ScoresAreMeans(ga_matrix, ga_groups)

\* C15: a formation run configured with a non-positive population size or
\* generation count (or min_size > max_size, or a probability outside [0,1]) is
\* rejected before any matrix construction, fitness evaluation or grouping
\* step.
C15_InvalidConfiguration ==
    (population_size < 1 \/ generations < 1) =>
        /\ ga_matrix = <<>>
        /\ population = <<>>
        /\ evaluations = 0
        /\ gpc \in {"idle", "raised"}

\* C16: allocate_tasks on a group with no pending work item returns an empty
\* assignment list without raising, creates no assignment record and changes
\* no task status.
C16_NoPendingWorkItems ==
    [][(apc = "idle" /\ \A t \in 1..Len(tasks) : tasks[t].status # "Pending") =>
        /\ apc' = "done"
        /\ allocations' = <<>>
        /\ task_assignments' = task_assignments
        /\ tasks' = tasks]_vars

\* a second call on a group whose three tasks are all in progress
C16_Witness ==
    /\ apc = "done"
    /\ calls = 2
    /\ Len(tasks) = 3
    /\ \A t \in 1..Len(tasks) : tasks[t].status = "In Progress"
    /\ members # <<>>
    /\ allocations = <<>>
    /\ Len(task_assignments) = 3

\* C17: an empty skill set on either side gives a skill-diversity sub-score of
\* exactly 0.5; a missing ability metric, an empty availability set and a
\* missing trait vector give exactly 0.5 for their sub-scores; two individuals
\* with all four attributes absent score exactly 0.5 overall.
C17_NeutralDefaults ==
    cpc = "scored" =>
        /\ (student1.skills = {} \/ student2.skills = {}) => scores.skill = <<1, 2>>
        /\ (student1.gwa = NoGwa \/ student2.gwa = NoGwa) => scores.gwa = <<1, 2>>
        /\ (student1.availability = {} \/ student2.availability = {})
                => scores.schedule = <<1, 2>>
        /\ (~student1.traits.present \/ ~student2.traits.present)
                => scores.personality = <<1, 2>>
        /\ (student1 = ProfileC /\ student2 = ProfileC) => scores.overall = 500

\* two individuals with no skill, no ability metric, no slot and no traits
C17_Witness ==
    /\ cpc = "scored"
    /\ student1 = ProfileC
    /\ student2 = ProfileC
    /\ scores.skill = <<1, 2>>
    /\ scores.schedule = <<1, 2>>
    /\ scores.overall = 500

\* how often index i occurs in the decoded groups
DecodedOccurrences(i) ==
    SumSeq([k \in 1..Len(decoded) |->
        Cardinality({m \in 1..Len(decoded[k]) : decoded[k][m] = i})])

\* C18: decode_individual merges a final dangling group of fewer than min_size
\* members into the smallest emitted group or, when no group was emitted, keeps
\* it as a group of its own: no member is dropped from the decoded partition.
C18_DanglingGroupKept ==
    dpc = "decoded" =>
        /\ \A i \in 1..Len(genome) : DecodedOccurrences(i) = 1
        /\ Len(genome) < min_group_size =>
                decoded = <<[i \in 1..Len(genome) |-> i]>>

\* C19: every group form_groups_ga returns has between min_size and max_size
\* members, for every population of at least min_size individuals and every
\* outcome of the random search.
C19_GroupSizeInvariant ==
    (gpc = "done" /\ Len(students) >= min_group_size) =>
        \A k \in 1..Len(ga_groups) :
            /\ Len(ga_groups[k].members) >= min_group_size
            /\ Len(ga_groups[k].members) <= max_group_size

\* the stored fitness of ind is valid and is the fitness of its present genes
FitnessCurrent(ind) ==
    /\ ind.valid
    /\ ind.fitness = EvaluateGrouping(ga_matrix, ind.genes, target_group_size)

\* C20: stale fitness is never reused: where a fitness is read (tournament
\* selection, the final best-genome selection) the stored value is the fitness
\* of the genome's present genes; a genome changed by crossover or mutation has
\* its fitness invalidated and computed again before the next read.
C20_NoStaleFitness ==
    /\ gpc \in {"select", "finish"} =>
        \A i \in 1..Len(population) : FitnessCurrent(population[i])
    /\ \A i \in 1..Len(offspring) :
        offspring[i].valid => FitnessCurrent(offspring[i])
    /\ gpc = "done" => FitnessCurrent(best_individual)

\* the final selection reads a population in which a crossed or mutated genome,
\* unlike every initial genome, was evaluated again
C20_Witness ==
    /\ gpc = "finish"
    /\ gen = Generations
    /\ evaluations > Len(population)
    /\ \E i \in 1..Len(population) :
        /\ population[i].genes \notin InitGenomes(Len(students))
        /\ FitnessCurrent(population[i])

\* C21: one evolutionary search run with population size P and G generations
\* performs at most P x G fitness evaluations.
C21_EvaluationBudget ==
    evaluations <= population_size * generations

\* the weight the claim gives a proficiency tier, in tenths
ClaimedWeight(member, skill) ==
    LET rows == {r \in 1..Len(member.skills) : member.skills[r].skill_name = skill}
    IN  IF rows = {} THEN 0
        ELSE LET p == member.skills[CHOOSE r \in rows : TRUE].proficiency_level
             IN  IF p = "Expert" THEN 10
                 ELSE IF p = "Advanced" THEN 8
                 ELSE IF p = "Intermediate" THEN 6
                 ELSE IF p = "Beginner" THEN 3
                 ELSE 0

\* sum of the weights over the required skills, divided by their number, capped
ClaimedRatio(member, task) ==
    LET required == task.required_skills
        total == SumSeq([k \in 1..Len(required) |-> ClaimedWeight(member, required[k])])
    IN  IF total >= 10 * Len(required) THEN <<1, 1>>
        ELSE Norm(<<total, 10 * Len(required)>>)

\* the same over the distinct required skills
RECURSIVE WeightOver(_, _)
WeightOver(member, skills) ==
    IF skills = {} THEN 0
    ELSE LET sk == CHOOSE x \in skills : TRUE
         IN  ClaimedWeight(member, sk) + WeightOver(member, skills \ {sk})

DistinctRatio(member, task) ==
    LET distinct == SeqToSet(task.required_skills)
        total == WeightOver(member, distinct)
    IN  IF total >= 10 * Cardinality(distinct) THEN <<1, 1>>
        ELSE Norm(<<total, 10 * Cardinality(distinct)>>)

\* C22 as stated: 0.5 for an item without required skills, else the capped
\* ratio of the summed proficiency weights to the number of required skills;
\* a member with none of the required skills, a member with an empty skill
\* set included, scores 0.
C22_SkillMatchAsStated ==
    spc = "matched" =>
        skill_match = IF sm_task.required_skills = <<>> THEN <<1, 2>>
                      ELSE ClaimedRatio(sm_member, sm_task)

\* C22 as amended: the same, but a member with an empty skill set scores 0.1
\* on every item that requires a skill, and the required skills are counted
\* once each.
C22_SkillMatch ==
    spc = "matched" =>
        skill_match = IF sm_task.required_skills = <<>> THEN <<1, 2>>
                      ELSE IF sm_member.skills = <<>> THEN <<1, 10>>
                      ELSE DistinctRatio(sm_member, sm_task)

\* an Advanced and a Beginner skill against three required skills, one of
\* them not held: (0.8 + 0.3 + 0) / 3
C22_Witness ==
    /\ spc = "matched"
    /\ sm_task.required_skills = <<"Python", "SQL", "Flask">>
    /\ Len(sm_member.skills) = 2
    /\ sm_member.skills[1].proficiency_level = "Advanced"
    /\ sm_member.skills[2].proficiency_level = "Beginner"
    /\ skill_match = <<11, 30>>

\* 0.7 * skill_match + 0.3 * (1 - assigned_hours / (avg + 0.1)) of member k,
\* avg the mean of the hours of ms: with T the total and n the number of
\* members, assigned_hours / (avg + 0.1) = 10 n assigned_hours / (10 T + n)
CompositeScore(ms, k, task) ==
    LET n == Len(ms)
        T == SumSeq([m \in 1..n |-> ms[m].assigned_hours])
    IN  RAdd(RMul(<<7, 10>>, CalculateSkillMatch(ms[k], task)),
             RMul(<<3, 10>>, Norm(<<10 * T + n - 10 * n * ms[k].assigned_hours,
                                    10 * T + n>>)))

\* the member the claim names: greatest composite score, first in member order
FirstOfGreatestScore(ms, task) ==
    CHOOSE k \in 1..Len(ms) :
        /\ \A m \in 1..Len(ms) :
            RLeq(CompositeScore(ms, m, task), CompositeScore(ms, k, task))
        /\ \A m \in 1..(k - 1) :
            RLess(CompositeScore(ms, m, task), CompositeScore(ms, k, task))

\* C23: each allocation step assigns the work item to the member of greatest
\* 0.7 * skill_match + 0.3 * (1 - assigned_hours / (avg + 0.1)), the hours
\* being those accumulated in this run; ties go to the first member in member
\* order; the item's effort is added to that member's hours and to no other's.
C23_AllocationStep ==
    [][(apc = "assign" /\ Len(allocations') = Len(allocations) + 1) =>
        LET task == tasks_sorted[apos]
            k == FirstOfGreatestScore(members, task)
        IN  /\ allocations'[Len(allocations')].assignee = members[k].id
            /\ allocations'[Len(allocations')].task = task.id
            /\ task_assignments'[Len(task_assignments')].student_id = members[k].id
            /\ members'[k].assigned_hours = members[k].assigned_hours + task.estimated_hours
            /\ \A m \in 1..Len(members) :
                m # k => members'[m].assigned_hours = members[m].assigned_hours
            /\ \A m \in 1..Len(members) :
                members[m].assigned_hours =
                    SumSeq([a \in 1..Len(allocations) |->
                        IF allocations[a].assignee = members[m].id
                        THEN allocations[a].hours ELSE 0])]_vars

\* two members of equal skills and two items requiring that skill: the first
\* item goes to the first member on the tie, the second to the other member on
\* workload
C23_Witness ==
    /\ Len(members) = 2
    /\ members[1].skills = members[2].skills
    /\ members[1].skills # <<>>
    /\ Len(allocations) = 2
    /\ allocations[1].assignee = 1
    /\ allocations[2].assignee = 2
    /\ members[1].assigned_hours = 20
    /\ members[2].assigned_hours = 20

\* C24: after the main loop of form_groups_simple the leftover individuals,
\* fewer than min_size of them, are all appended to the group that had the
\* fewest members when the loop ended, the earliest-formed one on ties, and
\* no other group's membership changes.
C24_LeftoverRepair ==
    [][(pc = "leftover" /\ pc' = "done" /\ ungrouped # <<>>) =>
        /\ Len(ungrouped) < min_group_size
        /\ Len(groups') = Len(groups)
        /\ \E k \in 1..Len(groups) :
            /\ \A m \in 1..Len(groups) :
                Len(groups[k].members) <= Len(groups[m].members)
            /\ \A m \in 1..(k - 1) :
                Len(groups[m].members) > Len(groups[k].members)
            /\ groups'[k].members = groups[k].members \o ungrouped
            /\ \A m \in 1..Len(groups) :
                m # k => groups'[m].members = groups[m].members]_vars

\* three groups of one member and two leftovers: the first group took both
C24_Witness ==
    /\ pc = "done"
    /\ Len(ungrouped) = 2
    /\ Len(groups) = 3
    /\ Len(groups[1].members) = 3
    /\ Len(groups[2].members) = 1
    /\ Len(groups[3].members) = 1
    /\ groups[1].members[2] = ungrouped[1]
    /\ groups[1].members[3] = ungrouped[2]

\* sum of the pair scores of a group, in thousandths, and the number of pairs
PairTotal(matrix, g) ==
    SumSeq([i \in 1..Len(g) |->
        SumSeq([j \in 1..Len(g) |-> IF i < j THEN matrix[g[i]][g[j]] ELSE 0])])

PairCount(g) == (Len(g) * (Len(g) - 1)) \div 2

RECURSIVE SumOfMeans(_, _, _)
SumOfMeans(matrix, gs, n) ==
    IF n = 0 THEN <<0, 1>>
    ELSE RAdd(SumOfMeans(matrix, gs, n - 1),
              IF PairCount(gs[n]) = 0 THEN <<0, 1>>
              ELSE Norm(<<PairTotal(matrix, gs[n]), 1000 * PairCount(gs[n])>>))

\* the fitness the claim states, for decoded groups gs
StatedFitness(matrix, gs, target_size) ==
    LET onTarget == {k \in 1..Len(gs) : Len(gs[k]) = target_size}
        outside == {k \in 1..Len(gs) :
                        Len(gs[k]) < min_group_size \/ Len(gs[k]) > max_group_size}
    IN  RAdd(SumOfMeans(matrix, gs, Len(gs)),
             Norm(<<Cardinality(onTarget) - 1000 * Cardinality(outside), 10>>))

HasStatedFitness(ind) ==
    ind.valid =>
        ind.fitness = StatedFitness(ga_matrix, DecodeIndividual(ind.genes),
                                    target_group_size)

\* C25: the fitness of every genome is the sum over its decoded groups of the
\* mean intra-group pair score (0 for a group without pairs), plus 0.1 for each
\* group of exactly target_size members, minus 100 for each group below
\* min_size or above max_size.
C25_Fitness ==
    /\ \A i \in 1..Len(population) : HasStatedFitness(population[i])
    /\ \A i \in 1..Len(offspring) : HasStatedFitness(offspring[i])
    /\ gpc = "done" => HasStatedFitness(best_individual)

\* an evaluated population holding a genome of two groups of target size and a
\* genome whose one group exceeds max_size
C25_Witness ==
    /\ gpc = "select"
    /\ \E i, j \in 1..Len(population) :
        /\ population[i].valid /\ population[j].valid
        /\ LET gi == DecodeIndividual(population[i].genes)
               gj == DecodeIndividual(population[j].genes)
           IN  /\ Len(gi) = 2 /\ Len(gi[1]) = target_group_size
               /\ Len(gj) = 1 /\ Len(gj[1]) > max_group_size
               /\ RLess(population[j].fitness, <<-99, 1>>)
               /\ RLess(<<1, 5>>, population[i].fitness)

C27_SameScores ==
    cpc = "scored" =>
        /\ scores.overall = scores.overall_ga
        /\ scores.reverse = scores.reverse_ga
        /\ scores.matrix = scores.matrix_ga

\* C28: allocate_tasks assigns only 'Pending' tasks and moves each to
\* 'In Progress': after any sequence of calls on a group every task has at
\* most one assignment record, and a later call with no new tasks returns an
\* empty list and creates no record.
C28_NoReassignment ==
    /\ [](\A t \in 1..Len(tasks) : Cardinality(AssignmentsOf(tasks[t].id)) <= 1)
    /\ [](\A r \in 1..Len(task_assignments) :
            \A t \in 1..Len(tasks) :
                tasks[t].id = task_assignments[r].task_id =>
                    tasks[t].status = "In Progress")
    /\ [][calls > 1 =>
            /\ task_assignments' = task_assignments
            /\ allocations' = <<>>
            /\ apc' \in {"idle", "done"}]_vars

\* a second call returned after a first call that assigned three tasks
C28_Witness ==
    /\ calls = 2
    /\ apc = "done"
    /\ allocations = <<>>
    /\ Len(task_assignments) = 3
    /\ \A t \in 1..Len(tasks) : tasks[t].status = "In Progress"

\* estimated_hours of the task of identifier id
HoursOfTask(id) ==
    LET t == CHOOSE k \in 1..Len(tasks) : tasks[k].id = id
    IN  tasks[t].estimated_hours

\* C29: after every assignment step of allocate_tasks the members' assigned
\* hours add up to the estimated hours of the items assigned so far in this
\* run, and each member's assigned_hours is the sum of the hours of the tasks
\* in that member's assigned_tasks list.
C29_WorkloadConservation ==
    [][(apc = "assign" /\ Len(allocations') = Len(allocations) + 1) =>
        /\ SumSeq([m \in 1..Len(members') |-> members'[m].assigned_hours]) =
                SumSeq([a \in 1..Len(allocations') |->
                    HoursOfTask(allocations'[a].task)])
        /\ \A a \in 1..Len(allocations') :
                allocations'[a].task = tasks_sorted[a].id
        /\ \A m \in 1..Len(members') :
                members'[m].assigned_hours =
                    SumSeq([a \in 1..Len(members'[m].assigned_tasks) |->
                        HoursOfTask(members'[m].assigned_tasks[a])])]_vars

\* three items of 10, 20 and 20 hours assigned: one member holds 30 hours in
\* two tasks, the other 20 in one
C29_Witness ==
    /\ apc = "done"
    /\ calls = 1
    /\ Len(members) = 2
    /\ Len(allocations) = 3
    /\ TotalAssignedHours(members) = 50
    /\ \E m \in 1..2 :
        /\ members[m].assigned_hours = 30
        /\ Len(members[m].assigned_tasks) = 2
        /\ members[3 - m].assigned_hours = 20
        /\ Len(members[3 - m].assigned_tasks) = 1

\* C30: form_groups_simple terminates, by returning its groups or by raising,
\* for every population size and every integer target_group_size.
C30_GreedyTerminates ==
    (pc = "idle") ~> (pc \in {"done", "raised"})

\* a run on the largest population with a non-positive target returned, after
\* an outer iteration per group of one
C30_Witness ==
    /\ pc = "done"
    /\ run = 2
    /\ target_group_size = 0
    /\ Len(students) = MaxPop
    /\ group_num = Len(groups) + 1
    /\ Len(groups) >= 3

====
